---- MODULE Spec2Model ----
(***************************************************************************)
(* A model of the duty-roster application:                                 *)
(*   - the saveDuty HTTP handler (identity checks, body validation,        *)
(*     forwarding to Power Automate),                                      *)
(*   - the Roster UI's save state machine (handleSave, success timer),     *)
(*   - the Roster UI's reordering (handleDragEnd, arrayMove).              *)
(* The three parts share no state; each has its own specification.         *)
(***************************************************************************)
EXTENDS Integers, Sequences, FiniteSets, TLC

\* ---- bounds of the model ----
\* longest duties array a request body carries
MaxDuties == 2
\* number of distinct clock readings new Date() can return
MaxClock == 2
\* number of save clicks in one UI session
MaxSaves == 3
\* number of drag-end events in one UI session
MaxDrags == 2

VARIABLES
    pc,            \* saveDuty: "idle" (no invocation), "running", "done"
    request,       \* saveDuty: the invocation's inputs
    result,        \* saveDuty: what the invocation produced
    saveStatus,    \* UI: useState<SaveStatus>
    errorMessage,  \* UI: useState<string>
    inflight,      \* UI: the handleSave calls suspended at await fetch(...)
    reading,       \* UI: the handleSave calls suspended at await res.text()
    timers,        \* UI: the pending setTimeout callbacks, by the save that set them
    clicks,        \* UI: number of handleSave calls so far
    lastEvent,     \* UI: the event-loop task that ran last
    duties,        \* UI: useState<DutyItem[]>
    drags,         \* UI: number of drag-end events so far
    lastDrag       \* UI: the last DragEndEvent and the list it was applied to

endpointVars == <<pc, request, result>>
saveVars == <<saveStatus, errorMessage, inflight, reading, timers, clicks, lastEvent>>
dragVars == <<duties, drags, lastDrag>>
vars == <<pc, request, result, saveStatus, errorMessage, inflight, reading, timers,
          clicks, lastEvent, duties, drags, lastDrag>>

\* ======================================================================
\* JavaScript values (the JSON subset the handler sees)
\* ======================================================================

JUndef == [t |-> "undefined"]
JNull == [t |-> "null"]
JNum(n) == [t |-> "number", n |-> n]
JStr(s) == [t |-> "string", s |-> s]
JArr(items) == [t |-> "array", items |-> items]
\* an object; a property whose value is JUndef is an absent property
JObj(fields) == [t |-> "object", fields |-> fields]

\* v.k : undefined for a missing property and for a primitive, array or
\* object that has no such property (TypeError on null/undefined: CanRead)
Get(v, k) ==
    IF v.t = "object" /\ k \in DOMAIN v.fields THEN v.fields[k] ELSE JUndef

\* property access and destructuring throw TypeError on null and undefined
CanRead(v) == v.t \notin {"null", "undefined"}

\* JavaScript truthiness, as used by !x and ||
Truthy(v) ==
    CASE v.t = "undefined" -> FALSE
      [] v.t = "null" -> FALSE
      [] v.t = "number" -> v.n # 0
      [] v.t = "string" -> v.s # ""
      [] OTHER -> TRUE

TypeOf(v) ==
    CASE v.t = "string" -> "string"
      [] v.t = "number" -> "number"
      [] v.t = "undefined" -> "undefined"
      [] OTHER -> "object"

IsArray(v) == v.t = "array"

\* a || b
Or(a, b) == IF Truthy(a) THEN a ELSE b

\* A text is either the serialisation of a JSON value or not JSON at all.
JsonText(v) == [syntax |-> "json", value |-> v]
BadText == [syntax |-> "invalid", value |-> JUndef]

\* JSON.parse: throws SyntaxError on a text that is not JSON
JSON_parse(text) ==
    IF text.syntax = "json"
    THEN [threw |-> FALSE, value |-> text.value]
    ELSE [threw |-> TRUE, value |-> JUndef]

JSON_stringify(v) == [syntax |-> "json", value |-> v]

\* new Date(ms).toISOString() for the clock readings of the model
ToISOString(ms) == JStr("2026-01-01T00:00:00.00" \o ToString(ms) \o "Z")

\* ======================================================================
\* saveDuty
\* ======================================================================

\* request.headers.get(name): null, or the header's string.  A string is
\* described by whether it is empty and by the text its bytes decode to.
HeaderNull == [kind |-> "null", empty |-> TRUE, decoded |-> BadText]
HeaderStr(empty, decoded) ==
    [kind |-> "string", empty |-> empty, decoded |-> decoded]

\* !principalHeader
HeaderFalsy(h) == h.kind = "null" \/ h.empty

\* Buffer.from(headerValue, 'base64').toString('utf-8'): never throws; a
\* header that is not base64 of a JSON text decodes to a text that is not JSON
Base64ToUtf8(h) == h.decoded

decodeClientPrincipal(headerValue) ==
    LET decoded == Base64ToUtf8(headerValue)
        parsed == JSON_parse(decoded)
    IN  IF parsed.threw THEN JNull ELSE parsed.value

Response(status, jsonBody) == [status |-> status, jsonBody |-> jsonBody]
ErrorBody(msg) == [error |-> msg]
NoResponse == [status |-> 0, jsonBody |-> [error |-> ""]]

\* the handler body either returns a response or lets an exception out;
\* posts is the list of fetch calls it made
Returned(resp, posts) == [threw |-> FALSE, response |-> resp, posts |-> posts]
Thrown(posts) == [threw |-> TRUE, response |-> NoResponse, posts |-> posts]

\* the for-of loop over duties: "ok", "invalid" at the first element with a
\* non-string id/day/member, "threw" at the first element that is null
RECURSIVE ValidateFrom(_, _)
ValidateFrom(items, i) ==
    IF i > Len(items) THEN "ok"
    ELSE IF ~CanRead(items[i]) THEN "threw"
    ELSE IF \/ TypeOf(Get(items[i], "id")) # "string"
            \/ TypeOf(Get(items[i], "day")) # "string"
            \/ TypeOf(Get(items[i], "member")) # "string"
         THEN "invalid"
    ELSE ValidateFrom(items, i + 1)

SavedByFromUserId(principal) ==
    Or(Or(Get(principal, "userId"), Get(principal, "userDetails")), JStr("unknown"))

\* principal.userDetails || principal.userId || 'unknown'
SavedBy(principal) ==
    Or(Or(Get(principal, "userDetails"), Get(principal, "userId")), JStr("unknown"))

ResponseOkBelow500(status) == status < 500

\* paResponse.ok
ResponseOk(status) == 200 <= status /\ status <= 299

\* the inner try/catch around fetch
Forward(url, payload, sink) ==
    LET post == [url |-> url, method |-> "POST",
                 contentType |-> "application/json",
                 body |-> JSON_stringify(payload)]
    IN  IF sink.kind = "network"
        THEN Returned(Response(502, ErrorBody("Network error calling Power Automate")), <<post>>)
        ELSE IF ~ResponseOk(sink.status)
        THEN IF sink.textThrows
             THEN Returned(Response(502, ErrorBody("Network error calling Power Automate")), <<post>>)
             ELSE Returned(Response(502, ErrorBody("Failed to forward to Power Automate")), <<post>>)
        ELSE Returned(Response(200, [success |-> TRUE, savedAt |-> Get(payload, "savedAt")]), <<post>>)

\* the body of the outer try block
saveDutyTry(req) ==
    IF req.fault = "headers.get" THEN Thrown(<<>>)
    ELSE
    LET principalHeader == req.header IN
    IF HeaderFalsy(principalHeader)
    THEN Returned(Response(401, ErrorBody("Unauthorized: No client principal found")), <<>>)
    ELSE
    LET principal == decodeClientPrincipal(principalHeader) IN
    IF ~Truthy(principal)
    THEN Returned(Response(401, ErrorBody("Unauthorized: Failed to decode client principal")), <<>>)
    ELSE
    IF Get(principal, "identityProvider") # JStr("aad")
    THEN Returned(Response(403, ErrorBody("Forbidden: AAD authentication required")), <<>>)
    ELSE
    LET parsed == JSON_parse(req.body) IN
    IF parsed.threw
    THEN Returned(Response(400, ErrorBody("Bad Request: Invalid JSON body")), <<>>)
    ELSE
    LET body == parsed.value IN
    IF ~CanRead(body) THEN Thrown(<<>>)
    ELSE
    LET bodyDuties == Get(body, "duties") IN
    IF ~IsArray(bodyDuties) \/ Len(bodyDuties.items) = 0
    THEN Returned(Response(400, ErrorBody("Bad Request: duties must be a non-empty array")), <<>>)
    ELSE
    LET valid == ValidateFrom(bodyDuties.items, 1) IN
    IF valid = "threw" THEN Thrown(<<>>)
    ELSE
    IF valid = "invalid"
    THEN Returned(Response(400, ErrorBody("Bad Request: each duty must have id, day, member as strings")), <<>>)
    ELSE
    LET powerAutomateUrl == req.env IN
    IF ~Truthy(powerAutomateUrl)
    THEN Returned(Response(500, ErrorBody("Server configuration error: POWER_AUTOMATE_URL not set")), <<>>)
    ELSE
    LET payload == JObj([duties |-> bodyDuties,
                         savedBy |-> SavedBy(principal),
                         savedAt |-> ToISOString(req.now)])
    IN  IF req.fault = "payload" THEN Thrown(<<>>)
        ELSE Forward(powerAutomateUrl, payload, req.sink)

OuterCatchRethrows(r) == r

\* catch (outerErr): 500 Internal server error
OuterCatch(r) ==
    Returned(Response(500, ErrorBody("Internal server error")), r.posts)

\* the handler: try { ... } catch (outerErr) { ... }
saveDuty(req) ==
    LET r == saveDutyTry(req) IN IF r.threw THEN OuterCatch(r) ELSE r

\* ---- the inputs of an invocation ----

\* decoded x-ms-client-principal values: falsy values, truthy values that are
\* no record, records without / with another / with the expected provider
AadPrincipals ==
    { JObj([identityProvider |-> JStr("aad"), userId |-> uid, userDetails |-> ud]) :
        uid \in {JUndef, JStr(""), JStr("abc123")},
        ud \in {JUndef, JNull, JStr(""), JNum(7), JStr("a@b.com")} }

PrincipalValues ==
    { JNull, JNum(0), JNum(5), JStr("aad"), JArr(<<>>),
      JObj([identityProvider |-> JUndef, userId |-> JStr("abc123"), userDetails |-> JUndef]),
      JObj([identityProvider |-> JStr("github"), userId |-> JStr("abc123"),
            userDetails |-> JStr("a@b.com")]) }
    \cup AadPrincipals

Headers ==
    { HeaderNull, HeaderStr(TRUE, BadText), HeaderStr(FALSE, BadText) }
    \cup { HeaderStr(FALSE, JsonText(v)) : v \in PrincipalValues }

Duty(id, day, member) == JObj([id |-> id, day |-> day, member |-> member])

DutyElems ==
    { JNull, JNum(7), JStr("mon"), JArr(<<>>),
      Duty(JStr("mon"), JStr("Monday"), JUndef),
      Duty(JStr("mon"), JStr("Monday"), JStr("Tanaka")),
      Duty(JStr("tue"), JStr("Tuesday"), JStr("Suzuki")) }

DutySeqs == UNION { [1..n -> DutyElems] : n \in 0..MaxDuties }

BodyValues ==
    { JNull, JNum(5), JStr("duties"), JArr(<<>>),
      JObj([duties |-> JUndef]), JObj([duties |-> JNull]),
      JObj([duties |-> JStr("mon")]),
      JObj([duties |-> Duty(JStr("mon"), JStr("Monday"), JStr("Tanaka"))]) }
    \cup { JObj([duties |-> JArr(s)]) : s \in DutySeqs }

Bodies == { BadText } \cup { JsonText(v) : v \in BodyValues }

\* process.env.POWER_AUTOMATE_URL
Envs == { JUndef, JStr(""), JStr("https://flow.example/hook") }

\* what the sink does with a POST: no response at all, or a status, and
\* whether reading the response text fails
Sinks ==
    { [kind |-> "network", status |-> 0, textThrows |-> FALSE] }
    \cup { [kind |-> "response", status |-> st, textThrows |-> FALSE] :
             st \in {200, 204, 400, 404, 500, 503} }
    \cup { [kind |-> "response", status |-> st, textThrows |-> TRUE] : st \in {404, 500} }

\* fault: a call that is not expected to throw does (request.headers.get;
\* building and logging the payload), to exercise the outer catch
Requests ==
    [ fault : {"none"}, header : Headers, body : Bodies, env : Envs,
      now : 1..MaxClock, sink : Sinks ]
    \cup
    [ fault : {"headers.get"}, header : Headers, body : {BadText},
      env : Envs, now : {1}, sink : { [kind |-> "network", status |-> 0, textThrows |-> FALSE] } ]
    \cup
    [ fault : {"payload"}, header : { HeaderStr(FALSE, JsonText(v)) : v \in AadPrincipals },
      body : { JsonText(JObj([duties |-> JArr(<<e>>)])) : e \in DutyElems },
      env : Envs, now : {1}, sink : Sinks ]

NoRequest == [none |-> TRUE]
NoResult == [none |-> TRUE]

\* ---- the invocation as a state machine ----

EndpointInit == pc = "idle" /\ request = NoRequest /\ result = NoResult

\* the host invokes the handler with a request
Receive ==
    /\ pc = "idle"
    /\ request' \in Requests
    /\ pc' = "running"
    /\ UNCHANGED <<result, saveVars, dragVars>>

\* the handler runs to its return
Handle ==
    /\ pc = "running"
    /\ result' = saveDuty(request)
    /\ pc' = "done"
    /\ UNCHANGED <<request, saveVars, dragVars>>

\* the response is sent; the stateless handler keeps nothing
Respond ==
    /\ pc = "done"
    /\ pc' = "idle"
    /\ request' = NoRequest
    /\ result' = NoResult
    /\ UNCHANGED <<saveVars, dragVars>>

\* ======================================================================
\* Roster UI: the save state machine
\* ======================================================================

\* type SaveStatus
SaveStatus == {"idle", "saving", "success", "error"}

\* the non-2xx statuses /api/saveDuty answers with
ErrorStatuses == {401, 500, 502}

\* `Server error: ${res.status} ${text}` (the source's label is Japanese)
ServerErrorMessage(status) == "Server error: " \o ToString(status) \o " {error}"
NetworkErrorMessage == "A network error occurred"

Event(kind, save) == [kind |-> kind, save |-> save]

SaveInit ==
    /\ saveStatus = "idle"
    /\ errorMessage = ""
    /\ inflight = {}
    /\ reading = {}
    /\ timers = {}
    /\ clicks = 0
    /\ lastEvent = Event("load", 0)

\* <button disabled={saveStatus === 'saving'}>
ButtonEnabled == saveStatus # "saving"

\* handleSave up to its await fetch(...): a click on the enabled button
ClickSave ==
    /\ ButtonEnabled
    /\ clicks < MaxSaves
    /\ clicks' = clicks + 1
    /\ saveStatus' = "saving"
    /\ errorMessage' = ""
    /\ inflight' = inflight \cup {clicks + 1}
    /\ lastEvent' = Event("click", clicks + 1)
    /\ UNCHANGED <<reading, timers, endpointVars, dragVars>>

\* fetch resolves with res.ok: setSaveStatus('success'), setTimeout(..., 3000)
FetchOk(id) ==
    /\ id \in inflight
    /\ inflight' = inflight \ {id}
    /\ saveStatus' = "success"
    /\ timers' = timers \cup {id}
    /\ lastEvent' = Event("ok", id)
    /\ UNCHANGED <<errorMessage, reading, clicks, endpointVars, dragVars>>

\* fetch resolves with a non-2xx status: handleSave awaits res.text()
FetchNotOk(id, status) ==
    /\ id \in inflight
    /\ inflight' = inflight \ {id}
    /\ reading' = reading \cup {[save |-> id, status |-> status]}
    /\ lastEvent' = Event("status", id)
    /\ UNCHANGED <<saveStatus, errorMessage, timers, clicks, endpointVars, dragVars>>

\* res.text() resolves: setErrorMessage(...), setSaveStatus('error')
TextRead(r) ==
    /\ r \in reading
    /\ reading' = reading \ {r}
    /\ errorMessage' = ServerErrorMessage(r.status)
    /\ saveStatus' = "error"
    /\ lastEvent' = Event("error", r.save)
    /\ UNCHANGED <<inflight, timers, clicks, endpointVars, dragVars>>

\* res.text() rejects: the catch block
TextFails(r) ==
    /\ r \in reading
    /\ reading' = reading \ {r}
    /\ errorMessage' = NetworkErrorMessage
    /\ saveStatus' = "error"
    /\ lastEvent' = Event("error", r.save)
    /\ UNCHANGED <<inflight, timers, clicks, endpointVars, dragVars>>

\* fetch rejects: the catch block
FetchFails(id) ==
    /\ id \in inflight
    /\ inflight' = inflight \ {id}
    /\ errorMessage' = NetworkErrorMessage
    /\ saveStatus' = "error"
    /\ lastEvent' = Event("error", id)
    /\ UNCHANGED <<reading, timers, clicks, endpointVars, dragVars>>

\* the callback of setTimeout(() => setSaveStatus('idle'), 3000)
TimerFires(id) ==
    /\ id \in timers
    /\ timers' = timers \ {id}
    /\ saveStatus' = "idle"
    /\ lastEvent' = Event("timer", id)
    /\ UNCHANGED <<errorMessage, inflight, reading, clicks, endpointVars, dragVars>>

\* the saves whose /api/saveDuty request has not completed
Outstanding == inflight \cup { r.save : r \in reading }

\* ======================================================================
\* Roster UI: reordering
\* ======================================================================

\* the source's day and member strings are Japanese; ASCII stands for them
INITIAL_DUTIES ==
    << [id |-> "mon", day |-> "Monday", member |-> "Tanaka Taro"],
       [id |-> "tue", day |-> "Tuesday", member |-> "Suzuki Hanako"],
       [id |-> "wed", day |-> "Wednesday", member |-> "Sato Ichiro"],
       [id |-> "thu", day |-> "Thursday", member |-> "Yamada Misaki"],
       [id |-> "fri", day |-> "Friday", member |-> "Ito Kenji"] >>

\* over is null when the drag ends outside every droppable
NoTarget == "null"

\* prev.findIndex((d) => d.id === id), 0-based, -1 when there is none
findIndex(list, id) ==
    IF \E i \in 1..Len(list) : list[i].id = id
    THEN (CHOOSE i \in 1..Len(list) :
             list[i].id = id /\ \A j \in 1..(i - 1) : list[j].id # id) - 1
    ELSE -1

\* Array.prototype.splice(start, 1) on a copy: the array without that slot
RemoveAt(array, from) ==
    LET f == IF from < 0 THEN Len(array) + from ELSE from
    IN  IF f < 0 \/ f >= Len(array) THEN array
        ELSE SubSeq(array, 1, f) \o SubSeq(array, f + 2, Len(array))

\* Array.prototype.splice(start, 0, item)
InsertAt(array, start, item) ==
    LET st == IF start > Len(array) THEN Len(array) ELSE start
    IN  SubSeq(array, 1, st) \o <<item>> \o SubSeq(array, st + 1, Len(array))

arrayMoveSwap(array, from, to) ==
    [i \in 1..Len(array) |->
        IF i = from + 1 THEN array[to + 1]
        ELSE IF i = to + 1 THEN array[from + 1]
        ELSE array[i]]

\* @dnd-kit/sortable arrayMove, for indexes findIndex returns of present ids:
\* newArray.splice(to < 0 ? newArray.length + to : to, 0, newArray.splice(from, 1)[0])
arrayMove(array, from, to) ==
    LET start == IF to < 0 THEN Len(array) + to ELSE to
        item == array[(IF from < 0 THEN Len(array) + from ELSE from) + 1]
    IN  InsertAt(RemoveAt(array, from), start, item)

NoDrag == [active |-> NoTarget, over |-> NoTarget, prev |-> INITIAL_DUTIES]

DragInit == duties = INITIAL_DUTIES /\ drags = 0 /\ lastDrag = NoDrag

\* handleDragEnd: active is one of the rendered cards, over one of them or null
handleDragEnd(active, over) ==
    /\ drags < MaxDrags
    /\ drags' = drags + 1
    /\ lastDrag' = [active |-> active, over |-> over, prev |-> duties]
    /\ duties' =
          IF over # NoTarget /\ active # over
          THEN LET oldIndex == findIndex(duties, active)
                   newIndex == findIndex(duties, over)
               IN  arrayMove(duties, oldIndex, newIndex)
          ELSE duties
    /\ UNCHANGED <<endpointVars, saveVars>>

CardIds == { duties[i].id : i \in 1..Len(duties) }

\* ======================================================================
\* Specifications
\* ======================================================================

Init == EndpointInit /\ SaveInit /\ DragInit

EndpointNext ==
    \/ Receive
    \/ Handle
    \/ Respond

SaveNext ==
    \/ ClickSave
    \/ \E id \in inflight : FetchOk(id)
    \/ \E id \in inflight : \E status \in ErrorStatuses : FetchNotOk(id, status)
    \/ \E id \in inflight : FetchFails(id)
    \/ \E r \in reading : TextRead(r)
    \/ \E r \in reading : TextFails(r)
    \/ \E id \in timers : TimerFires(id)

DragNext ==
    \E active \in CardIds : \E over \in CardIds \cup {NoTarget} :
        handleDragEnd(active, over)

\* the saveDuty handler alone
SpecEndpoint == Init /\ [][EndpointNext]_vars

\* the UI's save button and its asynchronous continuations
SpecSave == Init /\ [][SaveNext]_vars

\* the UI's drag-and-drop reordering
SpecDrag == Init /\ [][DragNext]_vars

\* ======================================================================
\* Properties of saveDuty
\* ======================================================================

R401Missing == Response(401, ErrorBody("Unauthorized: No client principal found"))
R401Decode == Response(401, ErrorBody("Unauthorized: Failed to decode client principal"))
R403Provider == Response(403, ErrorBody("Forbidden: AAD authentication required"))
R400Json == Response(400, ErrorBody("Bad Request: Invalid JSON body"))
R400Duties == Response(400, ErrorBody("Bad Request: duties must be a non-empty array"))
R400Entry ==
    Response(400, ErrorBody("Bad Request: each duty must have id, day, member as strings"))
R500Config ==
    Response(500, ErrorBody("Server configuration error: POWER_AUTOMATE_URL not set"))
R500Internal == Response(500, ErrorBody("Internal server error"))
R502Rejected == Response(502, ErrorBody("Failed to forward to Power Automate"))
R502Network == Response(502, ErrorBody("Network error calling Power Automate"))

\* an invocation has returned, and no fault was injected
Handled == pc = "done" /\ request.fault = "none"

\* the six checks, as the specification words them, on the request alone
HeaderMissing(req) == req.header.kind = "null" \/ req.header.empty
IsAssertion(req) ==
    /\ req.header.decoded.syntax = "json"
    /\ req.header.decoded.value.t = "object"
    /\ Get(req.header.decoded.value, "identityProvider").t = "string"
ProviderIsAad(req) ==
    Get(req.header.decoded.value, "identityProvider") = JStr("aad")
IdentityOk(req) == ~HeaderMissing(req) /\ IsAssertion(req) /\ ProviderIsAad(req)
BodyIsJson(req) == req.body.syntax = "json"
DutiesOf(req) == Get(req.body.value, "duties")
DutiesNonEmptyArray(req) ==
    DutiesOf(req).t = "array" /\ Len(DutiesOf(req).items) > 0
IsDutyEntry(e) ==
    /\ e.t = "object"
    /\ Get(e, "id").t = "string"
    /\ Get(e, "day").t = "string"
    /\ Get(e, "member").t = "string"
AllEntriesValid(req) ==
    \A i \in 1..Len(DutiesOf(req).items) : IsDutyEntry(DutiesOf(req).items[i])
SinkUrlSet(req) == req.env.t = "string" /\ req.env.s # ""

AllChecksPass(req) ==
    /\ IdentityOk(req)
    /\ BodyIsJson(req)
    /\ DutiesNonEmptyArray(req)
    /\ AllEntriesValid(req)
    /\ SinkUrlSet(req)

\* the response of the first check that fails; NoResponse when none does
FirstFailure(req) ==
    IF HeaderMissing(req) THEN R401Missing
    ELSE IF ~IsAssertion(req) THEN R401Decode
    ELSE IF ~ProviderIsAad(req) THEN R403Provider
    ELSE IF ~BodyIsJson(req) THEN R400Json
    ELSE IF ~DutiesNonEmptyArray(req) THEN R400Duties
    ELSE IF ~AllEntriesValid(req) THEN R400Entry
    ELSE IF ~SinkUrlSet(req) THEN R500Config
    ELSE NoResponse

\* C1: the response is the one of the first of the six checks that fails
\* (presence 401, decode 401, provider 403, body parse 400, duties shape 400,
\* sink URL 500), whatever the later checks would say, and nothing is posted
\* to the sink unless all six pass.
C1_FirstFailingCheckDecides ==
    Handled =>
        IF FirstFailure(request) = NoResponse
        THEN Len(result.posts) <= 1
        ELSE result.response = FirstFailure(request) /\ result.posts = <<>>

\* C2: a header that is present but does not decode to JSON of the Identity
\* Assertion shape (not JSON, or a number, string, array, or an object
\* without identityProvider) is answered 401 "Failed to decode client
\* principal", never 403 or another status.
C2_UndecodableHeaderIs401 ==
    Handled /\ ~HeaderMissing(request) /\ ~IsAssertion(request)
        => result.response = R401Decode

\* C3: with the identity checks passed and a body that parses as JSON, a
\* missing, non-array or empty duties is answered 400 "duties must be a
\* non-empty array", for every parsed value (null, number, string, array too).
C3_BadDutiesIs400 ==
    Handled /\ IdentityOk(request) /\ BodyIsJson(request)
            /\ ~DutiesNonEmptyArray(request)
        => result.response = R400Duties

\* C4: with the identity checks passed and duties a non-empty array, an
\* element without string id, day and member (null, number, string, array
\* included) is answered 400 "each duty must have id, day, member as
\* strings"; never 500, and nothing is forwarded.
C4_BadEntryIs400 ==
    Handled /\ IdentityOk(request) /\ BodyIsJson(request)
            /\ DutiesNonEmptyArray(request) /\ ~AllEntriesValid(request)
        => result.response = R400Entry /\ result.posts = <<>>

SinkFailed(sink) ==
    sink.kind = "network" \/ sink.status < 200 \/ sink.status > 299

\* C5: when all checks pass and the POST gets a non-2xx status or no
\* response at all, the answer is 502 with one of the two fixed error
\* bodies, and exactly one POST was attempted.
C5_SinkFailureIs502 ==
    Handled /\ AllChecksPass(request) /\ SinkFailed(request.sink)
        => /\ result.response \in {R502Rejected, R502Network}
           /\ Len(result.posts) = 1

C5_Witness ==
    /\ Handled /\ AllChecksPass(request)
    /\ request.sink.kind = "response" /\ request.sink.status = 503
    /\ result.response = R502Rejected
    /\ Len(result.posts) = 1

\* what the sink received: the JSON value of the one POST's body
SinkPayload == JSON_parse(result.posts[1].body).value

UserDetailsOf(req) == Get(req.header.decoded.value, "userDetails")
UserIdOf(req) == Get(req.header.decoded.value, "userId")
\* a property that is missing, or null
Absent(v) == v \in {JUndef, JNull}
\* present and none of null, "", 0
Usable(v) == v \notin {JUndef, JNull, JStr(""), JNum(0)}

\* the response and the payload of a successful save, given the savedBy rule
SavedAs(savedBy) ==
    /\ result.response.status = 200
    /\ DOMAIN result.response.jsonBody = {"success", "savedAt"}
    /\ result.response.jsonBody.success = TRUE
    /\ result.response.jsonBody.savedAt.t = "string"
    /\ Len(result.posts) = 1
    /\ result.posts[1].method = "POST"
    /\ SinkPayload =
          JObj([duties |-> DutiesOf(request), savedBy |-> savedBy,
                savedAt |-> result.response.jsonBody.savedAt])

Succeeds ==
    /\ Handled /\ AllChecksPass(request)
    /\ ~SinkFailed(request.sink)

\* C6 as stated: on a 2xx from the sink the answer is 200 {success, savedAt}
\* and the sink received {duties, savedBy, savedAt} with the submitted
\* duties, the response's savedAt, and savedBy = userDetails, or userId when
\* userDetails is absent, or "unknown" when both are absent.
C6_SavedByWhenAbsent ==
    Succeeds =>
        SavedAs(IF ~Absent(UserDetailsOf(request)) THEN UserDetailsOf(request)
                ELSE IF ~Absent(UserIdOf(request)) THEN UserIdOf(request)
                ELSE JStr("unknown"))

\* C6 amended: as above, with savedBy = userDetails unless it is absent,
\* null, empty or 0, else userId unless that is absent, null, empty or 0,
\* else "unknown" (an empty userDetails falls through like an absent one).
C6_SavedByWhenEmpty ==
    Succeeds =>
        SavedAs(IF Usable(UserDetailsOf(request)) THEN UserDetailsOf(request)
                ELSE IF Usable(UserIdOf(request)) THEN UserIdOf(request)
                ELSE JStr("unknown"))

C6_Witness ==
    /\ Succeeds
    /\ UserDetailsOf(request) = JStr("")
    /\ UserIdOf(request) = JStr("abc123")
    /\ Len(DutiesOf(request).items) = 2
    /\ DutiesOf(request).items[1] # DutiesOf(request).items[2]
    /\ Get(SinkPayload, "savedBy") = JStr("abc123")
    /\ Get(SinkPayload, "duties") = DutiesOf(request)

\* C7: every invocation returns one response with status 200, 400, 401,
\* 403, 500 or 502 and a body {error} or {success, savedAt}; an exception
\* at any step becomes a response (500 "Internal server error" where no
\* nearer handler applies) and never leaves the handler.
C7_AlwaysResponds ==
    pc = "done" =>
        /\ ~result.threw
        /\ result.response.status \in {200, 400, 401, 403, 500, 502}
        /\ \/ /\ DOMAIN result.response.jsonBody = {"error"}
              /\ result.response.jsonBody.error # ""
           \/ /\ DOMAIN result.response.jsonBody = {"success", "savedAt"}
              /\ result.response.status = 200
        \* headers.get throws: the outer catch
        /\ request.fault = "headers.get" => result.response = R500Internal
        \* building the payload throws: the outer catch
        /\ (request.fault = "payload" /\ AllChecksPass(request))
             => result.response = R500Internal /\ result.posts = <<>>
        \* JSON.parse of the header throws: decodeClientPrincipal's catch
        /\ (Handled /\ ~HeaderMissing(request)
              /\ request.header.decoded.syntax # "json")
             => result.response = R401Decode
        \* request.json() throws: its catch
        /\ (Handled /\ IdentityOk(request) /\ ~BodyIsJson(request))
             => result.response = R400Json
        \* validation throws on null: the outer catch
        /\ (Handled /\ IdentityOk(request) /\ request.body = JsonText(JNull))
             => result.response = R500Internal
        \* fetch rejects: the inner catch
        /\ (Handled /\ AllChecksPass(request) /\ request.sink.kind = "network")
             => result.response = R502Network

C7_Witness ==
    /\ Handled /\ IdentityOk(request)
    /\ request.body = JsonText(JNull)
    /\ ~result.threw
    /\ result.response = R500Internal

\* ======================================================================
\* Properties of the Roster UI
\* ======================================================================

\* C8: at most one /api/saveDuty request is outstanding at any time, and
\* while one is, saveStatus is 'saving' and the save button is disabled.
C8_OneSaveOutstanding ==
    /\ Cardinality(Outstanding) <= 1
    /\ Outstanding # {} => saveStatus = "saving" /\ ~ButtonEnabled

\* C9: saveStatus changes only along idle -> saving -> (success | error) ->
\* idle: 'saving' is entered only by a save click and left only by the
\* completion of that save's request, 'success' goes to 'idle' by the timer
\* of that save, 'error' stays until the next click, and no timer of an
\* earlier save changes the status of a later one.
C9_StatusTransition ==
    saveStatus' # saveStatus =>
        \/ /\ saveStatus' = "saving"
           /\ lastEvent'.kind = "click"
        \/ /\ saveStatus = "saving"
           /\ saveStatus' \in {"success", "error"}
           /\ lastEvent'.kind \in {"ok", "error"}
           /\ lastEvent'.save = clicks
        \/ /\ saveStatus = "success"
           /\ saveStatus' = "idle"
           /\ lastEvent'.kind = "timer"
           /\ lastEvent'.save = clicks

\* C9: every step of the UI keeps saveStatus on the claimed machine
\* idle -> saving -> (success | error) -> idle, as C9_StatusTransition states it.
C9_SaveStateMachine == [][C9_StatusTransition]_vars

IsPermutationOfInitial ==
    /\ Len(duties) = Len(INITIAL_DUTIES)
    /\ \A i \in 1..Len(INITIAL_DUTIES) :
          Cardinality({ j \in 1..Len(duties) : duties[j] = INITIAL_DUTIES[i] }) = 1

Without(list, id) == SelectSeq(list, LAMBDA d : d.id # id)
PositionOf(list, id) == CHOOSE i \in 1..Len(list) : list[i].id = id

\* C10: after any number of drag-end events the list is a permutation of
\* the original entries (none duplicated or lost, length unchanged); after
\* a drag-end that drops the active entry over another entry at position k
\* the active entry is at position k and the others keep their relative
\* order; a drag-end with no target or onto itself changes nothing.
C10_ReorderIsMove ==
    /\ IsPermutationOfInitial
    /\ drags > 0 =>
          IF lastDrag.over = NoTarget \/ lastDrag.over = lastDrag.active
          THEN duties = lastDrag.prev
          ELSE /\ duties[PositionOf(lastDrag.prev, lastDrag.over)].id = lastDrag.active
               /\ Without(duties, lastDrag.active) = Without(lastDrag.prev, lastDrag.active)

C10_Witness ==
    /\ drags >= 2
    /\ lastDrag.prev # INITIAL_DUTIES
    /\ lastDrag.over # NoTarget
    /\ PositionOf(lastDrag.prev, lastDrag.active) + 1 < PositionOf(lastDrag.prev, lastDrag.over)
    /\ duties[PositionOf(lastDrag.prev, lastDrag.over)].id = lastDrag.active
    /\ duties # lastDrag.prev

====
